---- MODULE Spec2Model ----
(***************************************************************************)
(* Oil-spill detector (services/oil-spill-detector/app): the /run pipeline *)
(* - read_wrecks / pick_latlng, the imagery query, candidate metrics,      *)
(* severity classification, event id and the merge-upsert of events.       *)
(*                                                                         *)
(* Units.  Degrees are integers in micro-degrees, distances are integers   *)
(* in millimetres (distance_km * 10^6), areas are integers in hundredths   *)
(* of a km2 (area_km2 * 100), times are integers in milliseconds.          *)
(***************************************************************************)
EXTENDS Integers, Sequences, FiniteSets, TLC

(***************************************************************************)
(* Bounds of the model.                                                    *)
(***************************************************************************)
MaxRuns == 2
MaxTime == 1
MaxAcquisitions == 1

Runs == 1..MaxRuns

(***************************************************************************)
(* Python values, tagged.  A raised exception is carried as a value so     *)
(* that it propagates through the expressions that use it.                 *)
(***************************************************************************)
VNone == [t |-> "none"]
VNum(n) == [t |-> "num", n |-> n]
VStr(s) == [t |-> "str", s |-> s]
VList(xs) == [t |-> "list", items |-> xs]
VMap(m) == [t |-> "map", m |-> m]
Raised(e) == [t |-> "raise", exc |-> e]
EmptyMap == VMap(<<>>)

\* dict.get(k, d): AttributeError on anything that is not a mapping.
Get(v, k, d) ==
  IF v.t = "raise" THEN v
  ELSE IF v.t # "map" THEN Raised("AttributeError")
  ELSE IF k \in DOMAIN v.m THEN v.m[k] ELSE d

\* v[i] (i counted from 0) on a list: IndexError past the end, TypeError on
\* a value that cannot be subscripted.
Index(v, i) ==
  IF v.t = "raise" THEN v
  ELSE IF v.t # "list" THEN Raised("TypeError")
  ELSE IF i + 1 <= Len(v.items) THEN v.items[i + 1] ELSE Raised("IndexError")

\* Truth value of a Python object.
Truthy(v) ==
  CASE v.t = "none" -> FALSE
    [] v.t = "num"  -> v.n # 0
    [] v.t = "str"  -> v.s # ""
    [] v.t = "list" -> Len(v.items) > 0
    [] v.t = "map"  -> DOMAIN v.m # {}
    [] OTHER        -> FALSE

\* The decimal strings the model's documents carry, in micro-degrees.
StrFloat(s) ==
  CASE s = "7.374383"   -> VNum(7374383)
    [] s = "151.928883" -> VNum(151928883)
    [] OTHER            -> Raised("ValueError")

\* float(v): a number, a string that parses, else ValueError / TypeError.
PyFloat(v) ==
  CASE v.t = "num"   -> v
    [] v.t = "str"   -> StrFloat(v.s)
    [] v.t = "raise" -> v
    [] OTHER         -> Raised("TypeError")

\* str(v) as used inside an f-string.
PyStr(v) ==
  CASE v.t = "none" -> "None"
    [] v.t = "str"  -> v.s
    [] OTHER        -> "?"

(***************************************************************************)
(* firestore_client.pick_latlng                                            *)
(***************************************************************************)
NoPos == [k |-> "none"]
Pos(lat, lng) == [k |-> "pos", lat |-> lat, lng |-> lng]
Raise(e) == [k |-> "raise", exc |-> e]
Continue == [k |-> "continue"]

\* The list literal of the ten probed paths; every element is evaluated
\* before the loop starts.
candidates(doc) ==
  << Get(Get(Get(doc, "phase1", EmptyMap), "screening", EmptyMap), "coordinates", VNone),
     Get(doc, "coordinates", VNone),
     Get(Get(doc, "location", EmptyMap), "coordinates", VNone),
     Get(Get(Get(doc, "historical", EmptyMap), "location", EmptyMap), "coordinates", VNone),
     Get(Get(doc, "geometry", EmptyMap), "coordinates", VNone),
     Get(Get(doc, "geo", EmptyMap), "coordinates", VNone),
     Get(Get(doc, "position", EmptyMap), "coordinates", VNone),
     Get(doc, "geo", VNone),
     Get(doc, "position", VNone),
     Get(doc, "geometry", VNone) >>

\* float(a), float(b) and the returned tuple (lat, lng).
FloatPair(lat, lng, first) ==
  LET fl == PyFloat(lat)
      fg == PyFloat(lng)
      f1 == IF first = "lng" THEN fg ELSE fl
      f2 == IF first = "lng" THEN fl ELSE fg
  IN  IF f1.t = "raise" THEN Raise(f1.exc)
      ELSE IF f2.t = "raise" THEN Raise(f2.exc)
      ELSE Pos(fl.n, fg.n)

\* One iteration of the loop over the candidates.
PickFrom(c) ==
  IF c.t = "none" THEN Continue
  ELSE IF c.t = "list" /\ Len(c.items) >= 2
    THEN FloatPair(c.items[2], c.items[1], "lng")
  ELSE IF c.t = "map"
    THEN LET lat == Get(c, "lat", Get(c, "latitude", VNone))
             lng == Get(c, "lng", Get(c, "longitude", VNone))
         IN  IF lat.t # "none" /\ lng.t # "none"
               THEN FloatPair(lat, lng, "lat")
               ELSE Continue
  ELSE Continue

pick_latlng(doc) ==
  LET cs == candidates(doc)
      bad == {i \in DOMAIN cs : cs[i].t = "raise"}
      hit == {i \in DOMAIN cs : PickFrom(cs[i]).k # "continue"}
      Min(S) == CHOOSE i \in S : \A j \in S : i <= j
  IN  IF bad # {} THEN Raise(cs[Min(bad)].exc)
      ELSE IF hit # {} THEN PickFrom(cs[Min(hit)])
      ELSE NoPos

(***************************************************************************)
(* The wreck documents the model's store can hold.  The position is that   *)
(* of tools/patch_wreck_coords.py; AltPos is a second one, nearby.         *)
(***************************************************************************)
WreckLat == 7374383
WreckLng == 151928883
AltPos == [lat |-> 7400000, lng |-> 151900000]

LngLatList(lng, lat) == VList(<<VNum(lng), VNum(lat)>>)
Screening(c) == VMap([screening |-> VMap([coordinates |-> c])])

DocNames ==
  { "patched", "both_pairs", "no_coords",
    "position_text", "malformed_number", "screening_pair_position_text" }

DocBody(name) ==
  CASE name = "screening_pair" ->
         VMap([phase1 |-> Screening(LngLatList(WreckLng, WreckLat))])
    [] name = "string_pair" ->
         VMap([coordinates |-> VList(<<VStr("151.928883"), VStr("7.374383")>>)])
    [] name = "patched" ->
         VMap([coordinates |-> VMap([lat |-> VNum(WreckLat), lng |-> VNum(WreckLng)]),
               geometry |-> VMap([type |-> VStr("Point"),
                                  coordinates |-> LngLatList(WreckLng, WreckLat)]),
               position |-> VMap([lat |-> VNum(WreckLat), lng |-> VNum(WreckLng)])])
    [] name = "both_pairs" ->
         VMap([phase1 |-> Screening(LngLatList(WreckLng, WreckLat)),
               coordinates |-> LngLatList(AltPos.lng, AltPos.lat)])
    [] name = "no_coords" ->
         VMap([name |-> VStr("Rio de Janeiro Maru")])
    [] name = "position_text" ->
         VMap([name |-> VStr("Rio de Janeiro Maru"),
               position |-> VStr("Chuuk Lagoon")])
    [] name = "malformed_number" ->
         VMap([coordinates |-> VList(<<VStr("151.928883"), VStr("7.37N")>>)])
    [] name = "screening_pair_position_text" ->
         VMap([phase1 |-> Screening(LngLatList(WreckLng, WreckLat)),
               position |-> VStr("Chuuk Lagoon")])

(***************************************************************************)
(* Candidate features as detect_dark_spots returns them (GeoJSON dicts),   *)
(* and the responses (scenes) the imagery platform can give to one query.  *)
(***************************************************************************)
Vertex(lng, lat) == VList(<<VNum(lng), VNum(lat)>>)
Ring(lng, lat) ==
  VList(<<Vertex(lng, lat), Vertex(lng + 1000, lat), Vertex(lng, lat + 1000),
          Vertex(lng, lat)>>)
Polygon(lng, lat) ==
  VMap([type |-> VStr("Polygon"), coordinates |-> VList(<<Ring(lng, lat)>>)])
\* A triangle with legs of 0.010000 and 0.009787 degrees: 0.6 km2 at the
\* latitude of the wreck.
WideRing(lng, lat) ==
  VList(<<Vertex(lng, lat), Vertex(lng + 10000, lat), Vertex(lng, lat + 9787),
          Vertex(lng, lat)>>)
WidePolygon(lng, lat) ==
  VMap([type |-> VStr("Polygon"), coordinates |-> VList(<<WideRing(lng, lat)>>)])
MultiPolygon(lng, lat) ==
  VMap([type |-> VStr("MultiPolygon"),
        coordinates |-> VList(<<VList(<<Ring(lng, lat)>>)>>)])
Props(image, t) == VMap([imageId |-> VStr(image), timeMs |-> VNum(t), dark |-> VNum(1)])
Feature(g, p) == VMap([type |-> VStr("Feature"), geometry |-> g, properties |-> p])

FeatureNames ==
  { "poly3", "poly8", "poly8b", "multi20", "nogeom", "poly_vertex1", "poly_nocoords" }

FeatureBody(name) ==
  CASE name = "poly3"   -> Feature(WidePolygon(WreckLng, 7401362), Props("S1A", 40))
    [] name = "poly8"   -> Feature(Polygon(WreckLng, 7446329), Props("S1A", 40))
    [] name = "poly8b"  -> Feature(Polygon(WreckLng, 7446333), Props("S1A", 40))
    [] name = "multi20" -> Feature(MultiPolygon(WreckLng, 7554247), Props("S1B", 50))
    [] name = "nogeom"  ->
         VMap([type |-> VStr("Feature"), geometry |-> VNone,
               properties |-> VMap([imageId |-> VStr("S1B")])])
    [] name = "poly_vertex1" ->
         Feature(VMap([type |-> VStr("Polygon"),
                       coordinates |-> VList(<<VList(<<VList(<<VNum(WreckLng)>>)>>)>>)]),
                 Props("S1A", 40))
    [] name = "poly_nocoords" ->
         Feature(VMap([type |-> VStr("Polygon")]), Props("S1A", 40))

SceneNames == { "clear", "near", "pair8", "mixed", "broken" }

SceneFeatures(scene) ==
  CASE scene = "clear"  -> <<>>
    [] scene = "near"   -> <<"poly3">>
    [] scene = "pair8"  -> <<"poly8", "poly8b">>
    [] scene = "mixed"  -> <<"nogeom", "poly_vertex1", "multi20">>
    [] scene = "broken" -> <<"poly_nocoords", "poly3">>

\* Lines 46-49: the thumbnail of a constant image over the AOI of the wreck.
getThumbURL(lat, lng) == <<"thumb", lat, lng>>

(***************************************************************************)
(* main.haversine_km, in millimetres, on the positions of the model: the   *)
(* values of the formula (R = 6371.0) for each wreck position and each     *)
(* first vertex above.                                                     *)
(***************************************************************************)
haversine_km(lat1, lon1, lat2, lon2) ==
  IF lat1 = lat2 /\ lon1 = lon2 THEN 0
  ELSE CASE <<lat1, lon1>> = <<WreckLat, WreckLng>> /\ lon2 = WreckLng ->
              CASE lat2 = 7401362 -> 2999927
                [] lat2 = 7446329 -> 8000030
                [] lat2 = 7446333 -> 8000474
                [] lat2 = 7554247 -> 19999964
         [] <<lat1, lon1>> = <<AltPos.lat, AltPos.lng>> /\ lon2 = WreckLng ->
              CASE lat2 = 7401362 -> 3188487
                [] lat2 = 7446329 -> 6056479
                [] lat2 = 7446333 -> 6056857
                [] lat2 = 7554247 -> 17444580

(***************************************************************************)
(* config.py: the thresholds are read from the environment when the        *)
(* process starts (defaults 0.5 km2 / 5 km / 0.2 km2 / 10 km).             *)
(***************************************************************************)
Thresholds(ca, cd, wa, wd) ==
  [CRITICAL_AREA_KM2 |-> ca, CRITICAL_DIST_KM |-> cd,
   WARN_AREA_KM2 |-> wa, WARN_DIST_KM |-> wd]

DefaultConfig == Thresholds(50, 5000000, 20, 10000000)

Configs ==
  { DefaultConfig,
    Thresholds(50, 5000000, 30, 10000000),
    Thresholds(20, 10000000, 25, 5000000) }

READ_COLLECTIONS ==
  << "artifacts/guardian/public/data/werpassessments",
     "artifacts/guardian-agent-default/public/data/werpassessments" >>

WreckId == "rio-de-janeiro-maru"

(***************************************************************************)
(* main.run, the body of the loop over the features: metrics, severity,    *)
(* event.                                                                  *)
(***************************************************************************)
NominalArea == 25

IsStr(v, s) == v.t = "str" /\ v.s = s

\* Lines 57-66: the area is never measured, the nominal area always applies.
area_km2(geom) == NominalArea

\* Lines 69-73: the first vertex of the outer ring.
FirstVertex(geom) ==
  IF ~Truthy(geom) THEN VNone
  ELSE LET ty == Get(geom, "type", VNone)
       IN  IF ty.t = "raise" THEN ty
           ELSE IF IsStr(ty, "Polygon")
             THEN Index(Index(Get(geom, "coordinates", VList(<<VList(<<>>)>>)), 0), 0)
           ELSE IF IsStr(ty, "MultiPolygon")
             THEN Index(Index(Index(
                    Get(geom, "coordinates", VList(<<VList(<<VList(<<>>)>>)>>)), 0), 0), 0)
           ELSE VNone

\* Lines 74-78: [k |-> "ok", d |-> millimetres] or [k |-> "raise", exc |-> ...].
distance_km(geom, lat, lng) ==
  LET coords == FirstVertex(geom)
  IN  IF coords.t = "raise" THEN Raise(coords.exc)
      ELSE IF Truthy(coords) /\ coords.t = "list" /\ Len(coords.items) >= 2
        THEN LET poly_lng == PyFloat(coords.items[1])
                 poly_lat == PyFloat(coords.items[2])
             IN  IF poly_lng.t = "raise" THEN Raise(poly_lng.exc)
                 ELSE IF poly_lat.t = "raise" THEN Raise(poly_lat.exc)
                 ELSE [k |-> "ok", d |-> haversine_km(lat, lng, poly_lat.n, poly_lng.n)]
      ELSE [k |-> "ok", d |-> 0]

\* Lines 80-81.
exceeded_warning(area, dist, cfg) ==
  area >= cfg.WARN_AREA_KM2 /\ dist <= cfg.WARN_DIST_KM

exceeded(area, dist, cfg) ==
  \/ (area >= cfg.CRITICAL_AREA_KM2 /\ dist <= cfg.CRITICAL_DIST_KM)
  \/ (area >= cfg.WARN_AREA_KM2 /\ dist <= cfg.WARN_DIST_KM)

severity_either(area, dist, cfg) ==
  IF area >= cfg.CRITICAL_AREA_KM2 \/ dist <= cfg.CRITICAL_DIST_KM THEN "critical"
  ELSE IF area >= cfg.WARN_AREA_KM2 \/ dist <= cfg.WARN_DIST_KM THEN "warning"
  ELSE "info"

\* Lines 83-87.
severity(area, dist, cfg) ==
  IF area >= cfg.CRITICAL_AREA_KM2 /\ dist <= cfg.CRITICAL_DIST_KM THEN "critical"
  ELSE IF area >= cfg.WARN_AREA_KM2 /\ dist <= cfg.WARN_DIST_KM THEN "warning"
  ELSE "info"

time_ms_now(props, t) == t

\* Line 55: int(props.get("timeMs") or int(time.time() * 1000)).
time_ms(props, t) ==
  LET v == Get(props, "timeMs", VNone)
  IN  IF Truthy(v) THEN v.n ELSE t

\* Line 89: area to two decimals, distance to one decimal (tenths of a km).
message(area, dist) ==
  <<"Sentinel-1 dark spot ~", area, " km2 at ", (dist + 50000) \div 100000, " km">>

\* Lines 92-106.
Event(f, dist, thumb_url, cfg, t) ==
  LET geom == Get(f, "geometry", EmptyMap)
      props == Get(f, "properties", EmptyMap)
      area == area_km2(geom)
  IN  [ source |-> "sentinel-1",
        imageId |-> Get(props, "imageId", VNone),
        timeMs |-> time_ms(props, t),
        area_km2 |-> area,
        distance_km |-> dist,
        exceeded |-> exceeded(area, dist, cfg),
        severity |-> severity(area, dist, cfg),
        message |-> message(area, dist),
        thumbUrl |-> thumb_url,
        geometry |-> geom,
        threshold |-> [warn |-> <<cfg.WARN_AREA_KM2, cfg.WARN_DIST_KM>>,
                       critical |-> <<cfg.CRITICAL_AREA_KM2, cfg.CRITICAL_DIST_KM>>],
        createdAtMs |-> t ]

event_id_image(event) == <<PyStr(event.imageId), 0>>
event_id_stamped(event) == <<PyStr(event.imageId), event.createdAtMs>>

\* Line 91: f"{image_id}-{int(distance_km*1000)}", the image id and the
\* distance truncated to whole metres.
event_id(event) == <<PyStr(event.imageId), event.distance_km \div 1000>>

\* firestore_client.write_oil_event: the document path of an event.
EventPath(wreck_path, id) == <<wreck_path, "monitoring/oil/events", id>>

\* DocumentReference.set(event, merge=True): the written fields overlay the
\* stored ones, the other stored fields stay.
MergeKeepsStored(old, new) ==
  [f \in DOMAIN old \cup DOMAIN new |-> IF f \in DOMAIN old THEN old[f] ELSE new[f]]

Merge(old, new) ==
  [f \in DOMAIN old \cup DOMAIN new |-> IF f \in DOMAIN new THEN new[f] ELSE old[f]]

NoDoc == [f \in {} |-> 0]

(***************************************************************************)
(* firestore_client.read_wrecks: the documents of each collection in the   *)
(* order of READ_COLLECTIONS, each with its resolved position; the first   *)
(* exception of pick_latlng leaves the function.                           *)
(***************************************************************************)
WreckPath(c) == <<READ_COLLECTIONS[c], WreckId>>

read_wrecks_lazy(docs) ==
  LET present == SelectSeq([c \in DOMAIN READ_COLLECTIONS |-> c],
                           LAMBDA c : docs[c] # "absent")
  IN  [k |-> "ok",
       out |-> [n \in DOMAIN present |->
                  [id |-> WreckId, path |-> WreckPath(present[n]),
                   latlng |-> pick_latlng(DocBody(docs[present[n]]))]]]

read_wrecks(docs) ==
  LET present == SelectSeq([c \in DOMAIN READ_COLLECTIONS |-> c],
                           LAMBDA c : docs[c] # "absent")
      out == [n \in DOMAIN present |->
                [id |-> WreckId, path |-> WreckPath(present[n]),
                 latlng |-> pick_latlng(DocBody(docs[present[n]]))]]
      bad == {n \in DOMAIN out : out[n].latlng.k = "raise"}
      first == CHOOSE n \in bad : \A m \in bad : n <= m
  IN  IF bad # {}
        THEN [k |-> "raise", exc |-> out[first].latlng.exc, path |-> out[first].path]
        ELSE [k |-> "ok", out |-> out]

(***************************************************************************)
(* State.                                                                  *)
(*   config     the thresholds of the process                              *)
(*   wreckDocs  the wreck document of each collection ("absent": none)     *)
(*   now        the clock, time.time() * 1000                              *)
(*   imagery    what the imagery platform answers to a query at present,   *)
(*              and the number of acquisitions that changed it             *)
(*   store      the event documents, by path                               *)
(*   pc, loc    position and local variables of each request to /run       *)
(*   resp       the response of each request                               *)
(*   got, nq, wrote, fault, after                                          *)
(*              history of each request: the responses of the imagery      *)
(*              platform, the number of imagery queries issued, the event  *)
(*              paths written, the exception that ended or hit it, and the *)
(*              store as it was when the request answered                  *)
(***************************************************************************)
VARIABLES config, wreckDocs, now, imagery, store, pc, loc, resp, got, nq, wrote, fault, after

vars == <<config, wreckDocs, now, imagery, store, pc, loc, resp, got, nq, wrote, fault, after>>

env == <<config, wreckDocs>>

NoStore == [p \in {} |-> NoDoc]
NoResp == [status |-> 0]
NoPath == <<>>
NoFault == [exc |-> "", at |-> "", path |-> NoPath]
IdleLoc ==
  [wrecks |-> <<>>, wi |-> 0, feats |-> <<>>, fi |-> 0, thumb_url |-> "",
   processed |-> 0, started |-> 0]

Init ==
  /\ config \in Configs
  /\ wreckDocs \in [DOMAIN READ_COLLECTIONS -> DocNames \cup {"absent"}]
  /\ now = 100
  /\ imagery = [scene |-> "clear", n |-> 0]
  /\ store = NoStore
  /\ pc = [r \in Runs |-> "idle"]
  /\ loc = [r \in Runs |-> IdleLoc]
  /\ resp = [r \in Runs |-> NoResp]
  /\ got = [r \in Runs |-> <<>>]
  /\ nq = [r \in Runs |-> 0]
  /\ wrote = [r \in Runs |-> {}]
  /\ fault = [r \in Runs |-> NoFault]
  /\ after = [r \in Runs |-> NoStore]

\* The clock advances.
Tick ==
  /\ now < 100 + MaxTime
  /\ now' = now + 1
  /\ UNCHANGED <<env, imagery, store, pc, loc, resp, got, nq, wrote, fault, after>>

\* A new acquisition changes what the imagery platform returns.
Acquire ==
  /\ imagery.n < MaxAcquisitions
  /\ \E scene \in SceneNames \ {imagery.scene} :
       imagery' = [scene |-> scene, n |-> imagery.n + 1]
  /\ UNCHANGED <<env, now, store, pc, loc, resp, got, nq, wrote, fault, after>>

\* Lines 111-112: any exception ends the request with the 500 response.
Abort(r, exc, at, path) ==
  /\ pc' = [pc EXCEPT ![r] = "done"]
  /\ resp' = [resp EXCEPT ![r] = [ok |-> FALSE, error |-> exc, status |-> 500]]
  /\ fault' = [fault EXCEPT ![r] = [exc |-> exc, at |-> at, path |-> path]]
  /\ after' = [after EXCEPT ![r] = store]

\* Lines 29-33: a request arrives (requests are served one after another)
\* and init_ee() returns.
Start(r) ==
  /\ pc[r] = "idle"
  /\ \A q \in Runs : q < r => pc[q] = "done"
  /\ pc' = [pc EXCEPT ![r] = "read"]
  /\ loc' = [loc EXCEPT ![r].started = now]
  /\ UNCHANGED <<env, now, imagery, store, resp, got, nq, wrote, fault, after>>

\* Lines 29-33, 111-112: a request arrives and init_ee() raises.
InitFails(r) ==
  /\ pc[r] = "idle"
  /\ \A q \in Runs : q < r => pc[q] = "done"
  /\ Abort(r, "EEException", "init_ee", NoPath)
  /\ loc' = [loc EXCEPT ![r].started = now]
  /\ UNCHANGED <<env, now, imagery, store, got, nq, wrote>>

\* Lines 35-36: read_wrecks returns the list, or raises what pick_latlng
\* raised.
ReadWrecks(r) ==
  /\ pc[r] = "read"
  /\ LET res == read_wrecks(wreckDocs)
     IN  IF res.k = "raise"
           THEN /\ Abort(r, res.exc, "pick_latlng", res.path)
                /\ UNCHANGED loc
           ELSE /\ pc' = [pc EXCEPT ![r] = "wreck"]
                /\ loc' = [loc EXCEPT ![r].wrecks = res.out, ![r].wi = 1]
                /\ UNCHANGED <<resp, fault, after>>
  /\ UNCHANGED <<env, now, imagery, store, got, nq, wrote>>

\* Line 35: the store cannot be read.
ReadFails(r) ==
  /\ pc[r] = "read"
  /\ Abort(r, "ServiceUnavailable", "read_wrecks", NoPath)
  /\ UNCHANGED <<env, now, imagery, store, loc, got, nq, wrote>>

AtWreck(r) == pc[r] = "wreck" /\ loc[r].wi <= Len(loc[r].wrecks)
Wreck(r) == loc[r].wrecks[loc[r].wi]

\* Lines 38-40: a wreck without a position is passed over.
SkipWreck(r) ==
  /\ AtWreck(r)
  /\ Wreck(r).latlng.k = "none"
  /\ loc' = [loc EXCEPT ![r].wi = @ + 1]
  /\ UNCHANGED <<env, now, imagery, store, pc, resp, got, nq, wrote, fault, after>>

\* Lines 43-49: detect_dark_spots and getThumbURL answer.
Query(r) ==
  /\ AtWreck(r)
  /\ Wreck(r).latlng.k = "pos"
  /\ LET scene == imagery.scene
         url == getThumbURL(Wreck(r).latlng.lat, Wreck(r).latlng.lng)
     IN
       /\ got' = [got EXCEPT ![r] = Append(@, <<Wreck(r).path, scene>>)]
       /\ IF SceneFeatures(scene) = <<>>
            THEN /\ loc' = [loc EXCEPT ![r].wi = @ + 1, ![r].feats = <<>>,
                                       ![r].thumb_url = url]
                 /\ UNCHANGED pc
            ELSE /\ loc' = [loc EXCEPT ![r].feats = SceneFeatures(scene), ![r].fi = 1,
                                       ![r].thumb_url = url]
                 /\ pc' = [pc EXCEPT ![r] = "feature"]
  /\ nq' = [nq EXCEPT ![r] = @ + 1]
  /\ UNCHANGED <<env, now, imagery, store, resp, wrote, fault, after>>

QueryFailureSkipsWreck(r, at) ==
  /\ loc' = [loc EXCEPT ![r].wi = @ + 1]
  /\ fault' = [fault EXCEPT ![r] =
                 [exc |-> "EEException", at |-> at, path |-> loc[r].wrecks[loc[r].wi].path]]
  /\ UNCHANGED <<pc, resp, after>>

\* Lines 43-49, 111-112: an exception of the imagery platform leaves the
\* loop over the wrecks.
QueryFailure(r, at) ==
  /\ Abort(r, "EEException", at, loc[r].wrecks[loc[r].wi].path)
  /\ UNCHANGED loc

\* Lines 43-49: detect_dark_spots or getThumbURL raises.
QueryFails(r) ==
  /\ AtWreck(r)
  /\ Wreck(r).latlng.k = "pos"
  /\ \E at \in {"detect_dark_spots", "getThumbURL"} : QueryFailure(r, at)
  /\ nq' = [nq EXCEPT ![r] = @ + 1]
  /\ UNCHANGED <<env, now, imagery, store, got, wrote>>

AtFeature(r) == pc[r] = "feature"
Feat(r) == FeatureBody(loc[r].feats[loc[r].fi])
Dist(r) ==
  distance_km(Get(Feat(r), "geometry", EmptyMap),
              Wreck(r).latlng.lat, Wreck(r).latlng.lng)

\* After a feature: the next feature, or the next wreck.
Advance(r) ==
  IF loc[r].fi < Len(loc[r].feats)
    THEN /\ loc' = [loc EXCEPT ![r].fi = @ + 1, ![r].processed = @ + 1]
         /\ UNCHANGED pc
    ELSE /\ loc' = [loc EXCEPT ![r].wi = @ + 1, ![r].processed = @ + 1]
         /\ pc' = [pc EXCEPT ![r] = "wreck"]

\* Lines 51-108: one feature is evaluated and its event is written, or the
\* evaluation raises.
WriteEvent(r) ==
  /\ AtFeature(r)
  /\ IF Dist(r).k = "raise"
       THEN /\ Abort(r, Dist(r).exc, "geometry", Wreck(r).path)
            /\ UNCHANGED <<store, loc, wrote>>
       ELSE LET event == Event(Feat(r), Dist(r).d, loc[r].thumb_url, config, now)
                path == EventPath(Wreck(r).path, event_id(event))
                old == IF path \in DOMAIN store THEN store[path] ELSE NoDoc
            IN  /\ store' = [p \in DOMAIN store \cup {path} |->
                               IF p = path THEN Merge(old, event) ELSE store[p]]
                /\ wrote' = [wrote EXCEPT ![r] = @ \cup {path}]
                /\ Advance(r)
                /\ UNCHANGED <<resp, fault, after>>
  /\ UNCHANGED <<env, now, imagery, got, nq>>

WriteFailsRollsBack(r) ==
  /\ AtFeature(r)
  /\ Dist(r).k = "ok"
  /\ Abort(r, "ServiceUnavailable", "write_oil_event", Wreck(r).path)
  /\ store' = [p \in DOMAIN store \ wrote[r] |-> store[p]]
  /\ UNCHANGED <<env, now, imagery, loc, got, nq, wrote>>

\* Lines 107, 111-112: write_oil_event raises.
WriteFails(r) ==
  /\ AtFeature(r)
  /\ Dist(r).k = "ok"
  /\ Abort(r, "ServiceUnavailable", "write_oil_event", Wreck(r).path)
  /\ UNCHANGED <<env, now, imagery, store, loc, got, nq, wrote>>

\* Line 110: the loop over the wrecks is over.
Finish(r) ==
  /\ pc[r] = "wreck"
  /\ loc[r].wi > Len(loc[r].wrecks)
  /\ pc' = [pc EXCEPT ![r] = "done"]
  /\ resp' = [resp EXCEPT ![r] =
                [ok |-> TRUE, elapsed_s |-> now - loc[r].started, status |-> 200]]
  /\ after' = [after EXCEPT ![r] = store]
  /\ UNCHANGED <<env, now, imagery, store, loc, got, nq, wrote, fault>>

Next ==
  \/ Tick
  \/ Acquire
  \/ \E r \in Runs :
       \/ Start(r)
       \/ InitFails(r)
       \/ ReadWrecks(r)
       \/ ReadFails(r)
       \/ SkipWreck(r)
       \/ Query(r)
       \/ QueryFails(r)
       \/ WriteEvent(r)
       \/ WriteFails(r)
       \/ Finish(r)

Spec == Init /\ [][Next]_vars

(***************************************************************************)
(* Properties.                                                             *)
(***************************************************************************)
Done(r) == pc[r] = "done"
Succeeded(r) == Done(r) /\ resp[r].status = 200
Failed(r) == Done(r) /\ resp[r].status = 500
Events == {store[p] : p \in DOMAIN store}
DocAt(path) ==
  DocBody(wreckDocs[CHOOSE c \in DOMAIN READ_COLLECTIONS : WreckPath(c) = path])

\* C1: every stored event is 'critical' iff its area reaches the critical
\* area and its distance is within the critical distance; otherwise
\* 'warning' iff its area reaches the warning area and its distance is
\* within the warning distance; otherwise 'info'.  One condition of a tier
\* alone never escalates to that tier.
C1_SeverityIsConjunctive ==
  \A e \in Events :
    LET crit == e.area_km2 >= config.CRITICAL_AREA_KM2
                  /\ e.distance_km <= config.CRITICAL_DIST_KM
        warn == e.area_km2 >= config.WARN_AREA_KM2
                  /\ e.distance_km <= config.WARN_DIST_KM
    IN  /\ e.severity \in {"critical", "warning", "info"}
        /\ (e.severity = "critical") <=> crit
        /\ (e.severity = "warning") <=> (~crit /\ warn)
        /\ (e.severity = "info") <=> (~crit /\ ~warn)

\* An event that is large enough for 'critical' but too far, next to one
\* that is close enough for a tier but too small for it.
C1_Witness ==
  /\ \E e \in Events :
       /\ e.area_km2 >= config.CRITICAL_AREA_KM2
       /\ e.distance_km > config.CRITICAL_DIST_KM
       /\ e.severity = "info"
  /\ \E e \in Events : e.severity = "critical"

\* C2: a failed event write does not end the run in the 500 outcome.
C2_WriteFailureIsContained ==
  \A r \in Runs : fault[r].at = "write_oil_event" => ~Failed(r)

\* C3: after a successful run every event id stored under the wreck's path
\* in one configured collection is stored under the wreck's path in every
\* other configured collection.
C3_EveryCollectionReceivesEveryEvent ==
  \A r \in Runs :
    Succeeded(r) =>
      \A p \in DOMAIN after[r] :
        \A c \in DOMAIN READ_COLLECTIONS :
          EventPath(WreckPath(c), p[3]) \in DOMAIN after[r]

\* The coordinate shapes pick_latlng recognises, looked for without ever
\* raising: a list of two or more elements, or a mapping with a latitude
\* and a longitude key.
Lookup(v, k) == IF v.t = "map" /\ k \in DOMAIN v.m THEN v.m[k] ELSE VNone
ProbedValues(doc) ==
  << Lookup(Lookup(Lookup(doc, "phase1"), "screening"), "coordinates"),
     Lookup(doc, "coordinates"),
     Lookup(Lookup(doc, "location"), "coordinates"),
     Lookup(Lookup(Lookup(doc, "historical"), "location"), "coordinates"),
     Lookup(Lookup(doc, "geometry"), "coordinates"),
     Lookup(Lookup(doc, "geo"), "coordinates"),
     Lookup(Lookup(doc, "position"), "coordinates"),
     Lookup(doc, "geo"),
     Lookup(doc, "position"),
     Lookup(doc, "geometry") >>
IsShape(c) ==
  \/ c.t = "list" /\ Len(c.items) >= 2
  \/ /\ c.t = "map"
     /\ Lookup(c, "lat").t # "none" \/ Lookup(c, "latitude").t # "none"
     /\ Lookup(c, "lng").t # "none" \/ Lookup(c, "longitude").t # "none"
NoRecognizedShape(doc) ==
  \A i \in DOMAIN ProbedValues(doc) : ~IsShape(ProbedValues(doc)[i])

\* C4: a record that carries none of the recognised coordinate shapes never
\* ends a run in the 500 outcome, and no run queries imagery for it.
C4_ShapelessRecordIsSkipped ==
  \A r \in Runs :
    /\ fault[r].at = "pick_latlng" => ~NoRecognizedShape(DocAt(fault[r].path))
    /\ \A i \in DOMAIN got[r] : ~NoRecognizedShape(DocAt(got[r][i][1]))

\* C5: a malformed numeric string in a probed coordinate value raises
\* nothing: no run ends with the ValueError of float().
C5_MalformedNumberIsNotFound ==
  \A r \in Runs : ~(fault[r].at = "pick_latlng" /\ fault[r].exc = "ValueError")

\* The position of the first probed path, in priority order, that yields
\* two numeric values.
FirstMatch(doc) ==
  LET vs == ProbedValues(doc)
      hit == {i \in DOMAIN vs : PickFrom(vs[i]).k = "pos"}
  IN  IF hit = {} THEN NoPos
      ELSE PickFrom(vs[CHOOSE i \in hit : \A j \in hit : i <= j])

\* C6: resolution returns the position of the first path, in priority
\* order, that yields two numeric values, whatever the lower-priority paths
\* hold: every wreck a run has read carries that position, and no read fails
\* on a record that has such a path.
C6_FirstMatchingPathDecides ==
  \A r \in Runs :
    /\ \A i \in DOMAIN loc[r].wrecks :
         FirstMatch(DocAt(loc[r].wrecks[i].path)).k = "pos" =>
           loc[r].wrecks[i].latlng = FirstMatch(DocAt(loc[r].wrecks[i].path))
    /\ fault[r].at = "pick_latlng" => FirstMatch(DocAt(fault[r].path)).k # "pos"

Upstream == {"init_ee", "detect_dark_spots", "getThumbURL"}

\* C7: once the imagery platform has failed for a run (at init_ee, at
\* detect_dark_spots or at getThumbURL), the run has answered {ok: false,
\* error} with status 500, and from then on it issues no imagery query and
\* writes no event.
C7_UpstreamFailureAborts ==
  /\ [](\A r \in Runs :
          fault[r].at \in Upstream =>
            /\ Done(r)
            /\ resp[r] = [ok |-> FALSE, error |-> fault[r].exc, status |-> 500])
  /\ [][\A r \in Runs :
          fault[r].at \in Upstream =>
            /\ nq'[r] = nq[r]
            /\ wrote'[r] = wrote[r]
            /\ loc'[r].processed = loc[r].processed
            /\ (store' # store => \E q \in Runs \ {r} : wrote'[q] # wrote[q] \/ loc'[q] # loc[q])]_vars

\* The imagery query of the first of two located wrecks failed, after which
\* the second wreck stays unqueried.
C7_Witness ==
  \E r \in Runs :
    /\ fault[r].at = "detect_dark_spots"
    /\ Done(r)
    /\ loc[r].wi = 1
    /\ Len(loc[r].wrecks) = 2
    /\ loc[r].wrecks[2].latlng.k = "pos"

\* C8: a candidate with malformed geometry does not fail the run.
C8_MalformedGeometryDegrades ==
  \A r \in Runs : fault[r].at # "geometry"

\* A run that succeeded right after a successful run, with the same answers
\* of the imagery platform for the same wrecks.
Rerun(r) ==
  /\ r - 1 \in Runs
  /\ Succeeded(r - 1)
  /\ Succeeded(r)
  /\ got[r] = got[r - 1]

\* C9: a rerun over the same wrecks and the same returned candidates writes
\* the same event ids and leaves the set of stored event records as the
\* previous run left it.
C9_RerunAddsNoRecords ==
  \A r \in Runs :
    Rerun(r) =>
      /\ wrote[r] = wrote[r - 1]
      /\ DOMAIN after[r] = DOMAIN after[r - 1]

\* A rerun at a later clock value that wrote events.
C9_Witness ==
  \E r \in Runs :
    /\ Rerun(r)
    /\ wrote[r] # {}
    /\ loc[r].started > loc[r - 1].started

\* C10 as stated: after a rerun every stored record equals, field by field,
\* the record the previous run left.
C10_RerunLeavesRecordsEqual ==
  \A r \in Runs : Rerun(r) => after[r] = after[r - 1]

\* The fields of an event that the pipeline derives from the candidate, the
\* distance and the thresholds.
DerivedFields ==
  { "source", "imageId", "area_km2", "distance_km", "exceeded", "severity",
    "message", "geometry", "threshold" }

\* The candidate an event was written from carries an acquisition time.
HasAcquisitionTime(e) ==
  \E nm \in FeatureNames :
    LET props == Get(FeatureBody(nm), "properties", EmptyMap)
    IN  /\ Truthy(Get(props, "timeMs", VNone))
        /\ Get(props, "imageId", VNone) = e.imageId
        /\ Get(FeatureBody(nm), "geometry", EmptyMap) = e.geometry

\* C10 amended: after a rerun every stored record has the derived fields of
\* the record the previous run left, and its timeMs too when the candidate
\* carries an acquisition time.
C10_RerunKeepsDerivedFields ==
  \A r \in Runs :
    Rerun(r) =>
      /\ DOMAIN after[r] = DOMAIN after[r - 1]
      /\ \A p \in DOMAIN after[r] :
           /\ \A f \in DerivedFields : after[r][p][f] = after[r - 1][p][f]
           /\ HasAcquisitionTime(after[r][p]) =>
                after[r][p].timeMs = after[r - 1][p].timeMs

\* A rerun that re-stamped createdAtMs on a record whose candidate carries
\* an acquisition time.
C10_Witness ==
  \E r \in Runs :
    /\ Rerun(r)
    /\ \E p \in DOMAIN after[r] :
         /\ HasAcquisitionTime(after[r][p])
         /\ after[r][p].createdAtMs # after[r - 1][p].createdAtMs

\* The candidates the imagery platform returned to a run, in the order the
\* run meets them, each with the path of its wreck.
RECURSIVE Candidates(_)
Candidates(g) ==
  IF g = <<>> THEN <<>>
  ELSE LET fs == SceneFeatures(g[1][2])
       IN  [i \in 1..Len(fs) |-> [path |-> g[1][1], nm |-> fs[i]]]
             \o Candidates(Tail(g))

\* The candidates a run has written an event for so far.
Written(r) == SubSeq(Candidates(got[r]), 1, loc[r].processed)

CandidateImage(c) ==
  Get(Get(FeatureBody(c.nm), "properties", EmptyMap), "imageId", VNone)
CandidateDistance(c) ==
  LET pos == pick_latlng(DocAt(c.path))
  IN  distance_km(Get(FeatureBody(c.nm), "geometry", EmptyMap), pos.lat, pos.lng).d

\* Two candidates one run has written for the same wreck from the same
\* source image.
SameImagePair(r, i, j) ==
  /\ i \in DOMAIN Written(r)
  /\ j \in DOMAIN Written(r)
  /\ i < j
  /\ Written(r)[i].path = Written(r)[j].path
  /\ CandidateImage(Written(r)[i]) = CandidateImage(Written(r)[j])

\* C11 as stated: two candidates of one wreck from one source image whose
\* computed distances differ are stored as two records under two event ids,
\* each record holding the distance of its candidate.
C11_DifferentDistancesGiveTwoRecords ==
  \A r \in Runs : \A i, j \in DOMAIN Written(r) :
    LET a == Written(r)[i]
        b == Written(r)[j]
    IN  (SameImagePair(r, i, j) /\ CandidateDistance(a) # CandidateDistance(b)) =>
          \E pa, pb \in wrote[r] \cap DOMAIN store :
            /\ pa # pb
            /\ pa[1] = a.path /\ store[pa].distance_km = CandidateDistance(a)
            /\ pb[1] = b.path /\ store[pb].distance_km = CandidateDistance(b)

\* The part of a distance that the event id keeps: int(distance_km * 1000).
Metres(d) == d \div 1000

\* C11 amended: two candidates of one wreck from one source image whose
\* distances differ in int(distance_km * 1000) are stored as two records
\* under two event ids, each record at the truncated distance of its
\* candidate.
C11_DifferentMetresGiveTwoRecords ==
  \A r \in Runs : \A i, j \in DOMAIN Written(r) :
    LET a == Written(r)[i]
        b == Written(r)[j]
    IN  (SameImagePair(r, i, j)
           /\ Metres(CandidateDistance(a)) # Metres(CandidateDistance(b))) =>
          \E pa, pb \in wrote[r] \cap DOMAIN store :
            /\ pa # pb
            /\ pa[1] = a.path /\ store[pa].imageId = CandidateImage(a)
            /\ Metres(store[pa].distance_km) = Metres(CandidateDistance(a))
            /\ pb[1] = b.path /\ store[pb].imageId = CandidateImage(b)
            /\ Metres(store[pb].distance_km) = Metres(CandidateDistance(b))

\* A run wrote two candidates of one wreck from one source image at
\* distances that differ in whole metres.
C11_Witness ==
  \E r \in Runs : \E i, j \in DOMAIN Written(r) :
    /\ SameImagePair(r, i, j)
    /\ Metres(CandidateDistance(Written(r)[i])) # Metres(CandidateDistance(Written(r)[j]))

\* The candidate has a polygon the imagery platform can measure.
HasArea(geom) ==
  \E nm \in {"poly3", "poly8", "poly8b", "multi20"} :
    geom = Get(FeatureBody(nm), "geometry", VNone)

\* The area of a candidate's polygon as the imagery platform measures it, in
\* hundredths of a km2.
PlatformArea(geom) ==
  IF geom = WidePolygon(WreckLng, 7401362) THEN 60 ELSE 1

\* C12: an event written for a candidate whose polygon has a measured area A
\* carries area_km2 = A and the severity and exceeded of (A, distance); the
\* nominal area is used only when there is no area.  With the default
\* thresholds the lone candidate of 0.6 km2 at 3 km from the wreck gives
\* exactly one event, 'critical' and exceeded.
C12_SuppliedAreaIsUsed ==
  /\ \A e \in Events :
       LET A == PlatformArea(e.geometry)
       IN  /\ HasArea(e.geometry) =>
                /\ e.area_km2 = A
                /\ e.severity = severity(A, e.distance_km, config)
                /\ e.exceeded = exceeded(A, e.distance_km, config)
           /\ ~HasArea(e.geometry) => e.area_km2 = NominalArea
           /\ (config = DefaultConfig /\ HasArea(e.geometry) /\ A = 60
                 /\ e.distance_km = 2999927) =>
                (e.severity = "critical" /\ e.exceeded)
  /\ \A r \in Runs :
       (Succeeded(r) /\ Len(got[r]) = 1 /\ got[r][1][2] = "near") =>
         Cardinality(wrote[r]) = 1

\* The wrecks a run has gone through, skipped ones included.
Scanned(r) == IF loc[r].wi = 0 THEN 0 ELSE loc[r].wi - 1

\* C13: the result of a run, completed or aborted, carries the elapsed time
\* and reports the number of wrecks scanned and of events written: two
\* completed runs that differ in a counter differ in their results.
C13_ResultReportsCounters ==
  /\ \A r \in Runs : Done(r) => "elapsed_s" \in DOMAIN resp[r]
  /\ \A r, q \in Runs :
       (Succeeded(r) /\ Succeeded(q) /\ resp[r] = resp[q]) =>
         /\ Scanned(r) = Scanned(q)
         /\ loc[r].processed = loc[q].processed

\* Areas (hundredths of a km2) and distances (mm) around the thresholds of
\* every configuration.
SampleAreas == { 0, 19, 20, 25, 30, 49, 50, 60 }
SampleDistances == { 0, 2999927, 5000000, 8000030, 10000000, 19999964 }

\* C14: in every written event exceeded is true iff severity is 'warning'
\* or 'critical', and false iff it is 'info'; the two computations agree on
\* every area and distance under every threshold configuration.
C14_ExceededIffNotInfo ==
  /\ \A e \in Events :
       /\ e.exceeded <=> e.severity # "info"
       /\ e.exceeded <=> e.severity \in {"warning", "critical"}
  /\ \A cfg \in Configs : \A a \in SampleAreas : \A d \in SampleDistances :
       exceeded(a, d, cfg) <=> severity(a, d, cfg) # "info"

\* Under thresholds whose warning tier is stricter than the critical tier,
\* an event that meets the critical tier and misses the warning tier.
C14_Witness ==
  /\ config.WARN_AREA_KM2 > config.CRITICAL_AREA_KM2
  /\ config.WARN_DIST_KM < config.CRITICAL_DIST_KM
  /\ \E e \in Events :
       /\ e.severity = "critical" /\ e.exceeded
       /\ e.distance_km > config.WARN_DIST_KM

(***************************************************************************)
(* Concurrent requests: the handler of a second request starts while the   *)
(* first is running.  Each step of a run is one call on the store or the   *)
(* imagery platform; write_oil_event is the single call ref.set(event,     *)
(* merge=True), so WriteEvent stays one step.                              *)
(***************************************************************************)
StartConcurrently(r) ==
  /\ pc[r] = "idle"
  /\ pc' = [pc EXCEPT ![r] = "read"]
  /\ loc' = [loc EXCEPT ![r].started = now]
  /\ UNCHANGED <<env, now, imagery, store, resp, got, nq, wrote, fault, after>>

InitFailsConcurrently(r) ==
  /\ pc[r] = "idle"
  /\ Abort(r, "EEException", "init_ee", NoPath)
  /\ loc' = [loc EXCEPT ![r].started = now]
  /\ UNCHANGED <<env, now, imagery, store, got, nq, wrote>>

NextConcurrent ==
  \/ Tick
  \/ Acquire
  \/ \E r \in Runs :
       \/ StartConcurrently(r)
       \/ InitFailsConcurrently(r)
       \/ ReadWrecks(r)
       \/ ReadFails(r)
       \/ SkipWreck(r)
       \/ Query(r)
       \/ QueryFails(r)
       \/ WriteEvent(r)
       \/ WriteFails(r)
       \/ Finish(r)

\* The concurrent runs are explored under the default thresholds, over
\* wreck records that resolve.
InitConcurrent ==
  /\ Init
  /\ config = DefaultConfig
  /\ \A c \in DOMAIN wreckDocs : wreckDocs[c] \in {"patched", "no_coords", "absent"}

SpecConcurrent == InitConcurrent /\ [][NextConcurrent]_vars

\* The position run r resolved for the wreck at a path.
ResolvedPos(r, path) ==
  LET i == CHOOSE i \in DOMAIN loc[r].wrecks : loc[r].wrecks[i].path = path
  IN  loc[r].wrecks[i].latlng

\* The event run r writes for a candidate at clock value t, and its path.
Payload(r, c, t) ==
  LET pos == ResolvedPos(r, c.path)
      geom == Get(FeatureBody(c.nm), "geometry", EmptyMap)
  IN  Event(FeatureBody(c.nm), distance_km(geom, pos.lat, pos.lng).d,
            getThumbURL(pos.lat, pos.lng), config, t)
PayloadPath(r, c, t) == EventPath(c.path, event_id(Payload(r, c, t)))

\* What run r alone leaves in an empty store when it writes all the
\* candidates it was given at clock value t: the paths, and at a path the
\* event of the last candidate written there.
SerialIds(r, t) ==
  {PayloadPath(r, Candidates(got[r])[i], t) : i \in DOMAIN Candidates(got[r])}
SerialRecord(r, p, t) ==
  LET cs == Candidates(got[r])
      at == {i \in DOMAIN cs : PayloadPath(r, cs[i], t) = p}
      last == CHOOSE i \in at : \A j \in at : j <= i
  IN  Payload(r, cs[last], t)

\* Two runs that completed over the same wrecks and the same candidates,
\* while no other run wrote.
SameWork(r, q) ==
  /\ r < q
  /\ Succeeded(r)
  /\ Succeeded(q)
  /\ got[r] = got[q]
  /\ \A x \in Runs \ {r, q} : wrote[x] = {}

\* C15: whatever the interleaving of two runs, the store holds exactly the
\* records the runs wrote, every record is the whole event of one write of
\* one candidate, and once two runs over the same wrecks and candidates have
\* completed the store holds the event ids of one run alone and at every
\* id a record one run alone leaves there.
C15_InterleavedRunsEqualOneRun ==
  /\ DOMAIN store = UNION {wrote[r] : r \in Runs}
  /\ \A r \in Runs :
       LET ws == Written(r)
       IN  wrote[r] = {PayloadPath(r, ws[i], now) : i \in DOMAIN ws}
  /\ \A p \in DOMAIN store :
       \E r \in Runs :
         LET ws == Written(r)
         IN  \E i \in DOMAIN ws : \E t \in 100..now :
               /\ store[p] = Payload(r, ws[i], t)
               /\ p = PayloadPath(r, ws[i], t)
  /\ \A r, q \in Runs :
       SameWork(r, q) =>
         /\ DOMAIN store = SerialIds(r, now)
         /\ \A p \in DOMAIN store :
              \E t \in 100..now : store[p] = SerialRecord(r, p, t)

\* Two runs in the middle of the candidates of the same query answers, each
\* having written, one record written by both.
C15_Witness ==
  \E r, q \in Runs :
    /\ r < q
    /\ pc[r] = "feature"
    /\ pc[q] = "feature"
    /\ got[r] = got[q]
    /\ wrote[r] \cap wrote[q] # {}
    /\ wrote[r] # wrote[q]

\* C16: a run that has issued an imagery query or written an event holds
\* the resolved position, or the absence of one, of every wreck record of
\* every collection; a run that failed while fetching or resolving a record
\* has answered 500 with no imagery query issued and no event written.
C16_ResolutionPrecedesQueries ==
  \A r \in Runs :
    /\ (nq[r] > 0 \/ wrote[r] # {}) =>
         \A c \in DOMAIN READ_COLLECTIONS :
           wreckDocs[c] # "absent" =>
             \E i \in DOMAIN loc[r].wrecks :
               /\ loc[r].wrecks[i].path = WreckPath(c)
               /\ loc[r].wrecks[i].latlng.k \in {"pos", "none"}
    /\ fault[r].at \in {"pick_latlng", "read_wrecks"} =>
         /\ Failed(r)
         /\ nq[r] = 0
         /\ got[r] = <<>>
         /\ wrote[r] = {}
         /\ loc[r].processed = 0

\* The record of the second collection failed to resolve while the record
\* of the first resolves to a position and the imagery platform has
\* candidates to return.
C16_Witness ==
  \E r \in Runs :
    /\ fault[r].at = "pick_latlng"
    /\ fault[r].path = WreckPath(2)
    /\ wreckDocs[1] # "absent"
    /\ pick_latlng(DocBody(wreckDocs[1])).k = "pos"
    /\ imagery.scene # "clear"
    /\ Failed(r)

\* C17: the step in which a run answers leaves the store as it is, no step
\* removes a stored event, a stored event changes only in the write of a
\* running request to its path, and the events a failed run wrote are in
\* the store when it answers and ever after.
C17_AbortKeepsEvents ==
  /\ [](\A r \in Runs :
          Failed(r) => (wrote[r] \subseteq DOMAIN after[r]
                          /\ wrote[r] \subseteq DOMAIN store))
  /\ [][/\ DOMAIN store \subseteq DOMAIN store'
        /\ \A r \in Runs : (~Done(r) /\ Done(r)') => store' = store
        /\ \A p \in DOMAIN store :
             store'[p] # store[p] =>
               \E q \in Runs : pc[q] = "feature" /\ p \in wrote'[q]]_vars

\* A run answered 500 on a failed write after it had written events for
\* earlier candidates, and a later run has written since.
C17_Witness ==
  \E r, q \in Runs :
    /\ Failed(r)
    /\ fault[r].at = "write_oil_event"
    /\ wrote[r] # {}
    /\ after[r] # NoStore
    /\ r < q
    /\ wrote[q] # {}

====
